---- MODULE Spec2Model ----
(***************************************************************************)
(* Model of src/part3_isomap/isomap.py: the ISOMAP pipeline                *)
(*   pairwise_distances -> build_neighborhood_graph -> check_connectivity  *)
(*   -> floyd_warshall -> classical_mds, sequenced by isomap().            *)
(*                                                                         *)
(* Every function of the module is public, so a run starts either at       *)
(* isomap(X, ...) or at a direct call of one of the stages on an input of  *)
(* its own (variable entry).  Matrices are functions 0..n-1 -> 0..n-1 ->   *)
(* Int; float("inf") is the saturating sentinel INF.  Distances are        *)
(* integers: the samples are drawn from lattice points whose pairwise      *)
(* Euclidean distances are integers, so sqrt is exact.                     *)
(***************************************************************************)
EXTENDS Integers, Sequences, FiniteSets, TLC

\* ---------------------------------------------------------------- bounds
MaxN == 3
MaxK == 3
MaxId == 3

\* ------------------------------------------------------------- constants
\* INF = float("inf")
INF == 1000
\* radius: float | None = None
NoRadius == -1
\* sample rows: lattice points with integer pairwise distances (3-4-5)
SamplePoints == {<<0, 0>>, <<3, 0>>, <<0, 4>>}
\* radii tried by isomap() runs
IsomapRadii == {NoRadius, 3}
\* n_neighbors tried by isomap() runs: the nearest only, and as many as allowed
IsomapNeighbors == {1, MaxK}
\* n_components tried by isomap() runs: the default, and more than any N
Components == {2, MaxN + 1}
\* entries of the distance matrices handed to build_neighborhood_graph directly
Dists == {0, 1, 2}
\* radii tried on them
BuildRadii == {NoRadius, 0, 1, 2}
\* entries of the graphs handed to check_connectivity / floyd_warshall directly
Weights == {0, 1, 3, INF}

Nodes(m) == 0 .. (m - 1)

\* ------------------------------------------------- float arithmetic on INF
\* a + b with inf + x = inf
Plus(a, b) == IF a >= INF \/ b >= INF THEN INF ELSE a + b

\* np.minimum, element-wise on two scalars
Minimum(a, b) == IF a <= b THEN a ELSE b

\* np.sqrt on a perfect square
Sqrt(v) == CHOOSE r \in 0 .. v : r * r = v

\* ascending sequence of the elements of a set of integers (np.where order)
RECURSIVE Ascending(_)
Ascending(S) ==
    IF S = {} THEN <<>>
    ELSE LET lo == CHOOSE x \in S : \A y \in S : x <= y
         IN  <<lo>> \o Ascending(S \ {lo})

\* the value that stands for a variable not yet assigned
Unset == <<>>

VARIABLES
    entry,          \* the function the caller invoked
    pc,             \* position of the run
    n,              \* number of samples / nodes
    X,              \* sample matrix (isomap entry)
    D,              \* distance matrix
    n_neighbors,
    n_components,
    radius,
    i,              \* row loop variable of build_neighborhood_graph
    Gdir,           \* local G of build_neighborhood_graph before line 93
    sel,            \* sel[r]: the j for which row r executed G[r, j] = D[r, j]
    G,              \* neighbourhood graph (returned by line 94)
    vistos,
    pila,
    connected,      \* return value of check_connectivity (once "conn" is logged)
    reached,        \* len(vistos) as reported
    k,              \* loop variable of floyd_warshall
    Dfw,            \* local D of floyd_warshall
    D_geo,          \* return value of floyd_warshall
    mdsIn,          \* the matrix handed to classical_mds
    result,         \* outcome of the run
    Ycols,          \* number of columns of the returned embedding
    log,            \* stages executed so far, in order
    eigvals,        \* vals as np.linalg.eigh returned them (line 153)
    vals,           \* vals as classical_mds returns them (line 155)
    vecs,           \* vecs[c]: the eigh column that is column c of vecs after line 156
    g_nodes,        \* Graph.nodes: id -> name
    g_edges,        \* Graph.edges: set of pairs
    g_degree,       \* Graph._degree: id -> count
    target_id       \* build_for_actor: the id of the target person

vars == <<entry, pc, n, X, D, n_neighbors, n_components, radius, i, Gdir, sel, G,
          vistos, pila, connected, reached, k, Dfw, D_geo, mdsIn, result, Ycols, log,
          eigvals, vals, vecs, g_nodes, g_edges, g_degree, target_id>>

\* the locals of classical_mds
mdsVars == <<eigvals, vals, vecs>>

\* the collaboration graph of part1_tmdb and its builder
collabVars == <<g_nodes, g_edges, g_degree, target_id>>

\* everything isomap.py works on
isomapVars == <<n, X, D, n_neighbors, n_components, radius, i, Gdir, sel, G,
                vistos, pila, connected, reached, k, Dfw, D_geo, mdsIn, result, Ycols, log,
                eigvals, vals, vecs>>

\* person ids and names the TMDB API may return
Ids == 0 .. (MaxId - 1)
Names == {"A", "B"}
NoTarget == -1

\* Graph.__init__ (graph_collab.py lines 5-8)
EmptyCollab == g_nodes = <<>> /\ g_edges = {} /\ g_degree = <<>>

\* symmetric, zero-diagonal m x m matrices with off-diagonal entries in Vals
SymMatrices(m, Vals) ==
    LET Pairs == {pr \in Nodes(m) \X Nodes(m) : pr[1] < pr[2]}
    IN  {[a \in Nodes(m) |-> [b \in Nodes(m) |->
            IF a = b THEN 0 ELSE IF a < b THEN f[<<a, b>>] ELSE f[<<b, a>>]]] :
         f \in [Pairs -> Vals]}

Locals0 ==
    /\ i = 0 /\ Gdir = Unset /\ sel = Unset
    /\ vistos = {} /\ pila = <<>> /\ connected = FALSE /\ reached = 0
    /\ k = 0 /\ Dfw = Unset /\ D_geo = Unset
    /\ mdsIn = Unset /\ result = "running" /\ Ycols = 0 /\ log = <<>>
    /\ eigvals = Unset /\ vals = Unset /\ vecs = Unset
    /\ EmptyCollab /\ target_id = NoTarget

\* isomap(X, n_neighbors, n_components, radius)
InitIsomap ==
    /\ entry = "isomap" /\ pc = "isomap"
    /\ n \in 1 .. MaxN
    /\ X \in [Nodes(n) -> SamplePoints]
    /\ n_neighbors \in IsomapNeighbors
    /\ n_components \in Components
    /\ radius \in IsomapRadii
    /\ D = Unset /\ G = Unset
    /\ Locals0

\* build_neighborhood_graph(D, n_neighbors, radius)
InitBuild ==
    /\ entry = "build_neighborhood_graph" /\ pc = "build"
    /\ n \in 1 .. MaxN
    /\ D \in SymMatrices(n, Dists)
    /\ n_neighbors \in 1 .. MaxK
    /\ radius \in BuildRadii
    /\ X = Unset /\ n_components = 0 /\ G = Unset
    /\ Locals0

\* check_connectivity(G) and floyd_warshall(G)
InitGraph ==
    /\ entry \in {"check_connectivity", "floyd_warshall"}
    /\ pc = IF entry = "check_connectivity" THEN "conn" ELSE "fw"
    /\ n \in 1 .. MaxN
    /\ G \in SymMatrices(n, Weights)
    /\ X = Unset /\ D = Unset /\ n_neighbors = 0 /\ n_components = 0
    /\ radius = NoRadius
    /\ Locals0

\* g = Graph(), driven by arbitrary add_node / add_edge calls, or by
\* build_for_actor (build_graph.py line 19 onwards)
InitCollab ==
    /\ entry \in {"Graph", "build_for_actor"}
    /\ pc = IF entry = "Graph" THEN "calls" ELSE "actor"
    /\ n = 0 /\ X = Unset /\ D = Unset /\ G = Unset
    /\ n_neighbors = 0 /\ n_components = 0 /\ radius = NoRadius
    /\ Locals0

Init == InitIsomap \/ InitBuild \/ InitGraph \/ InitCollab

\* ------------------------------------------------------ pairwise_distances
\* u . v over the feature axis
RECURSIVE Dot(_, _)
Dot(u, v) == IF u = <<>> THEN 0 ELSE Head(u) * Head(v) + Dot(Tail(u), Tail(v))

\* pairwise_distances(X): sqrt(max(|x_a|^2 + |x_b|^2 - 2 x_a.x_b, 0))
pairwise_distances(Xm, m) ==
    [a \in Nodes(m) |-> [b \in Nodes(m) |->
        LET XXa == Dot(Xm[a], Xm[a])
            XXb == Dot(Xm[b], Xm[b])
            D2  == XXa + XXb - 2 * Dot(Xm[a], Xm[b])
        IN  Sqrt(IF D2 < 0 THEN 0 ELSE D2)]]

\* isomap lines 171-175: "Paso 1", D = pairwise_distances(X)
IsomapDistances ==
    /\ pc = "isomap"
    /\ D' = pairwise_distances(X, n)
    /\ log' = Append(log, "dist")
    /\ pc' = "build"
    /\ UNCHANGED <<entry, n, X, n_neighbors, n_components, radius, i, Gdir, sel, G,
                   vistos, pila, connected, reached, k, Dfw, D_geo, mdsIn, result, Ycols>>
    /\ UNCHANGED mdsVars
    /\ UNCHANGED collabVars

\* ------------------------------------------------ build_neighborhood_graph
\* lines 76-79: G = full(INF); fill_diagonal(G, 0)
EmptyGraph(m) == [a \in Nodes(m) |-> [b \in Nodes(m) |-> IF a = b THEN 0 ELSE INF]]

BuildInit ==
    /\ pc = "build"
    /\ Gdir' = EmptyGraph(n)
    /\ sel' = [a \in Nodes(n) |-> {}]
    /\ i' = 0
    /\ log' = Append(log, "graph")
    /\ pc' = "rows"
    /\ UNCHANGED <<entry, n, X, D, n_neighbors, n_components, radius, G,
                   vistos, pila, connected, reached, k, Dfw, D_geo, mdsIn, result, Ycols>>
    /\ UNCHANGED mdsVars
    /\ UNCHANGED collabVars

\* mutant of RadiusSelected: "<" for "<=", a pair at exactly the radius is dropped
RadiusSelectedStrict(Dm, m, r, rad) == {j \in Nodes(m) : r /= j /\ Dm[r][j] < rad}

\* line 84: the j that row r connects in radius mode
RadiusSelected(Dm, m, r, rad) == {j \in Nodes(m) : r /= j /\ Dm[r][j] <= rad}

\* line 88: np.argsort(D[i]) with the default kind ("quicksort", not stable):
\* any permutation that puts the row in non-decreasing order
ArgsortOutcomes(row, m) ==
    {p \in Permutations(Nodes(m)) :
        \A a \in Nodes(m) : a + 1 < m => row[p[a]] <= row[p[a + 1]]}

\* line 89: idx[1:n_neighbors + 1]
KnnSlice(idx, m, nn) == {idx[a] : a \in {b \in Nodes(m) : 1 <= b /\ b < nn + 1}}

\* lines 85 / 90: G[r, j] = D[r, j] for the selected j
AssignRow(Gm, Dm, m, r, S) ==
    [a \in Nodes(m) |-> [b \in Nodes(m) |->
        IF a = r /\ b \in S THEN Dm[a][b] ELSE Gm[a][b]]]

\* lines 82-85: one iteration of the outer loop in radius mode
RadiusRow ==
    /\ pc = "rows" /\ radius /= NoRadius /\ i < n
    /\ LET S == RadiusSelected(D, n, i, radius)
       IN  /\ sel' = [sel EXCEPT ![i] = S]
           /\ Gdir' = AssignRow(Gdir, D, n, i, S)
    /\ i' = i + 1
    /\ UNCHANGED <<entry, pc, n, X, D, n_neighbors, n_components, radius, G,
                   vistos, pila, connected, reached, k, Dfw, D_geo, mdsIn, result, Ycols, log>>
    /\ UNCHANGED mdsVars
    /\ UNCHANGED collabVars

\* lines 87-90: one iteration of the outer loop in k-NN mode
KnnRow ==
    /\ pc = "rows" /\ radius = NoRadius /\ i < n
    /\ \E idx \in ArgsortOutcomes(D[i], n) :
          LET S == KnnSlice(idx, n, n_neighbors)
          IN  /\ sel' = [sel EXCEPT ![i] = S]
              /\ Gdir' = AssignRow(Gdir, D, n, i, S)
    /\ i' = i + 1
    /\ UNCHANGED <<entry, pc, n, X, D, n_neighbors, n_components, radius, G,
                   vistos, pila, connected, reached, k, Dfw, D_geo, mdsIn, result, Ycols, log>>
    /\ UNCHANGED mdsVars
    /\ UNCHANGED collabVars

\* mutant of Symmetrized: np.maximum, an edge needs both directions
SymmetrizedMaximum(Gm, m) ==
    [a \in Nodes(m) |-> [b \in Nodes(m) |->
        IF Gm[a][b] >= Gm[b][a] THEN Gm[a][b] ELSE Gm[b][a]]]

\* line 93: np.minimum(G, G.T)
Symmetrized(Gm, m) == [a \in Nodes(m) |-> [b \in Nodes(m) |-> Minimum(Gm[a][b], Gm[b][a])]]

\* lines 93-94, and the return to the caller (isomap line 178)
Symmetrize ==
    /\ pc = "rows" /\ i = n
    /\ G' = Symmetrized(Gdir, n)
    /\ pc' = IF entry = "isomap" THEN "conn" ELSE "done"
    /\ result' = IF entry = "isomap" THEN result ELSE "returned"
    /\ UNCHANGED <<entry, n, X, D, n_neighbors, n_components, radius, i, Gdir, sel,
                   vistos, pila, connected, reached, k, Dfw, D_geo, mdsIn, Ycols, log>>
    /\ UNCHANGED mdsVars
    /\ UNCHANGED collabVars

\* ------------------------------------------------------ check_connectivity
\* mutant of vecinos: "<=" for "<", every node counts as a neighbour
vecinosLeq(Gm, m, r) == {j \in Nodes(m) : Gm[r][j] <= INF}

\* line 109: np.where(G[r] < INF)[0]
vecinos(Gm, m, r) == {j \in Nodes(m) : Gm[r][j] < INF}

\* lines 101-104: vistos = {0}; pila = [0]   (isomap line 179 when called by isomap)
ConnInit ==
    /\ pc = "conn"
    /\ vistos' = {0}
    /\ pila' = <<0>>
    /\ log' = Append(log, "conn")
    /\ pc' = "conn_loop"
    /\ UNCHANGED <<entry, n, X, D, n_neighbors, n_components, radius, i, Gdir, sel, G,
                   connected, reached, k, Dfw, D_geo, mdsIn, result, Ycols>>
    /\ UNCHANGED mdsVars
    /\ UNCHANGED collabVars

\* lines 106-113: one iteration of "while pila"
ConnPop ==
    /\ pc = "conn_loop" /\ pila /= <<>>
    /\ LET top   == pila[Len(pila)]
           fresh == vecinos(G, n, top) \ vistos
       IN  /\ vistos' = vistos \cup fresh
           /\ pila' = SubSeq(pila, 1, Len(pila) - 1) \o Ascending(fresh)
    /\ UNCHANGED <<entry, pc, n, X, D, n_neighbors, n_components, radius, i, Gdir, sel, G,
                   connected, reached, k, Dfw, D_geo, mdsIn, result, Ycols, log>>
    /\ UNCHANGED mdsVars
    /\ UNCHANGED collabVars

\* mutant of ConnReport: a disconnected graph ends the run instead of being
\* reported
ConnReportAbort ==
    /\ pc = "conn_loop" /\ pila = <<>>
    /\ reached' = Cardinality(vistos)
    /\ connected' = (Cardinality(vistos) = n)
    /\ pc' = IF entry = "isomap" /\ Cardinality(vistos) = n THEN "fw" ELSE "done"
    /\ result' = IF entry /= "isomap" THEN "returned"
                 ELSE IF Cardinality(vistos) = n THEN result ELSE "aborted"
    /\ UNCHANGED <<entry, n, X, D, n_neighbors, n_components, radius, i, Gdir, sel, G,
                   vistos, pila, k, Dfw, D_geo, mdsIn, Ycols, log>>
    /\ UNCHANGED mdsVars
    /\ UNCHANGED collabVars

\* lines 115-120: report len(vistos) and return; the caller goes on
ConnReport ==
    /\ pc = "conn_loop" /\ pila = <<>>
    /\ reached' = Cardinality(vistos)
    /\ connected' = (Cardinality(vistos) = n)
    /\ pc' = IF entry = "isomap" THEN "fw" ELSE "done"
    /\ result' = IF entry = "isomap" THEN result ELSE "returned"
    /\ UNCHANGED <<entry, n, X, D, n_neighbors, n_components, radius, i, Gdir, sel, G,
                   vistos, pila, k, Dfw, D_geo, mdsIn, Ycols, log>>
    /\ UNCHANGED mdsVars
    /\ UNCHANGED collabVars

\* ---------------------------------------------------------- floyd_warshall
\* mutant of Relax: the loop runs over range(n - 1), the last node is never
\* used as an intermediate
RelaxSkipLast(Dm, m, kk) ==
    [a \in Nodes(m) |-> [b \in Nodes(m) |->
        IF kk = m - 1 THEN Dm[a][b]
        ELSE Minimum(Dm[a][b], Plus(Dm[a][kk], Dm[kk][b]))]]

\* mutant of Relax: the np.minimum with the current matrix is dropped
RelaxNoMinimum(Dm, m, kk) ==
    [a \in Nodes(m) |-> [b \in Nodes(m) |-> Plus(Dm[a][kk], Dm[kk][b])]]

\* line 132: np.minimum(D, D[:, [k]] + D[[k], :])
Relax(Dm, m, kk) ==
    [a \in Nodes(m) |-> [b \in Nodes(m) |->
        Minimum(Dm[a][b], Plus(Dm[a][kk], Dm[kk][b]))]]

\* lines 128-129: D = G.copy()
FWInit ==
    /\ pc = "fw"
    /\ Dfw' = G
    /\ k' = 0
    /\ log' = Append(log, "geo")
    /\ pc' = "fw_loop"
    /\ UNCHANGED <<entry, n, X, D, n_neighbors, n_components, radius, i, Gdir, sel, G,
                   vistos, pila, connected, reached, D_geo, mdsIn, result, Ycols>>
    /\ UNCHANGED mdsVars
    /\ UNCHANGED collabVars

\* lines 130-132: one iteration of "for k in range(n)"
FWStep ==
    /\ pc = "fw_loop" /\ k < n
    /\ Dfw' = Relax(Dfw, n, k)
    /\ k' = k + 1
    /\ UNCHANGED <<entry, pc, n, X, D, n_neighbors, n_components, radius, i, Gdir, sel, G,
                   vistos, pila, connected, reached, D_geo, mdsIn, result, Ycols, log>>
    /\ UNCHANGED mdsVars
    /\ UNCHANGED collabVars

\* line 133: return D
FWReturn ==
    /\ pc = "fw_loop" /\ k = n
    /\ D_geo' = Dfw
    /\ pc' = IF entry = "isomap" THEN "mds" ELSE "done"
    /\ result' = IF entry = "isomap" THEN result ELSE "returned"
    /\ UNCHANGED <<entry, n, X, D, n_neighbors, n_components, radius, i, Gdir, sel, G,
                   vistos, pila, connected, reached, k, Dfw, mdsIn, Ycols, log>>
    /\ UNCHANGED mdsVars
    /\ UNCHANGED collabVars

\* ----------------------------------------------------------- classical_mds
HasInf(M, m) == \E a, b \in Nodes(m) : M[a][b] >= INF

\* lines 144-153: D ** 2 and the double centering turn an infinite entry into
\* non-finite entries of B; np.linalg.eigh on such a matrix either raises
\* LinAlgError or returns NaN, depending on the LAPACK build
EighOutcomes(M, m) ==
    IF HasInf(M, m) THEN {"LinAlgError", "nan_embedding"} ELSE {"embedding"}

\* lines 159-161: vals[:n_components], vecs[:, :n_components]
EmbeddingColumns(m, nc) == IF nc <= m THEN nc ELSE m

\* a float that is not a number (inf - inf in line 150)
NaN == -999

\* line 153: the eigenvalues np.linalg.eigh returns for a finite symmetric B,
\* in ascending order.  B = -J D2 J / 2 has the eigenvalue 0 (B 1 = 0); the
\* spectra tried are one with distinct values and one with ties
EighSpectra(m) ==
    {[c \in Nodes(m) |-> c - (m \div 2)], [c \in Nodes(m) |-> c \div 2]}

\* line 153 on the B of matrix M: NaN throughout when M has an infinite entry
EighValues(M, m) ==
    IF HasInf(M, m) THEN {[c \in Nodes(m) |-> NaN]} ELSE EighSpectra(m)

\* line 154: [::-1]
Reversed(p, m) == [a \in Nodes(m) |-> p[m - 1 - a]]

\* lines 155-156: vals[idx], vecs[:, idx]
Take(w, idx, m) == [a \in Nodes(m) |-> w[idx[a]]]

\* line 156: which eigh column each column of vecs[:, idx] is.  When eigh
\* returned NaN throughout, the columns are all alike and every idx gives the
\* same matrix, recorded as the identity
Columns(w, idx, m) ==
    IF \A c \in Nodes(m) : w[c] = NaN THEN [c \in Nodes(m) |-> c] ELSE idx

\* isomap lines 184-188: Y, vals = classical_mds(D_geo, n_components); return
IsomapMDS ==
    /\ pc = "mds"
    /\ mdsIn' = D_geo
    /\ log' = Append(log, "mds")
    /\ \E out \in EighOutcomes(D_geo, n) :
          /\ result' = out
          /\ Ycols' = IF out = "LinAlgError" THEN 0 ELSE EmbeddingColumns(n, n_components)
          /\ IF out = "LinAlgError"
             THEN eigvals' = Unset /\ vals' = Unset /\ vecs' = Unset
             ELSE \E w \in EighValues(D_geo, n) :
                  \E p \in ArgsortOutcomes(w, n) :
                      LET idx == Reversed(p, n)
                      IN  /\ eigvals' = w
                          /\ vals' = Take(w, idx, n)
                          /\ vecs' = Columns(w, idx, n)
    /\ pc' = "done"
    /\ UNCHANGED <<entry, n, X, D, n_neighbors, n_components, radius, i, Gdir, sel, G,
                   vistos, pila, connected, reached, k, Dfw, D_geo>>
    /\ UNCHANGED collabVars

\* ------------------------------------------- part1_tmdb/graph_collab.py
\* dict helpers: key in d, d.get(key, default), d[key] = v
HasKey(d, key) == key \in DOMAIN d
DictGet(d, key, default) == IF key \in DOMAIN d THEN d[key] ELSE default
DictSet(d, key, v) == [x \in DOMAIN d \cup {key} |-> IF x = key THEN v ELSE d[x]]

\* mutant of NormalEdge: the pair is stored as given
RawEdge(a, b) == <<a, b>>

\* line 19: e = (a, b) if a < b else (b, a)
NormalEdge(a, b) == IF a < b THEN <<a, b>> ELSE <<b, a>>

\* Graph.add_node (lines 10-14) on the dicts nodes and degree
AddNode(nodes, degree, id, name) ==
    IF HasKey(nodes, id)
    THEN [nodes |-> nodes, degree |-> degree]
    ELSE [nodes  |-> DictSet(nodes, id, name),
          degree |-> IF HasKey(degree, id) THEN degree ELSE DictSet(degree, id, 0)]

\* Graph.add_edge (lines 16-23) on the set edges and the dict degree
AddEdge(edges, degree, a, b) ==
    IF a = b THEN [edges |-> edges, degree |-> degree]
    ELSE LET e == NormalEdge(a, b)
         IN  IF e \in edges THEN [edges |-> edges, degree |-> degree]
             ELSE LET d1 == DictSet(degree, e[1], DictGet(degree, e[1], 0) + 1)
                      d2 == DictSet(d1, e[2], DictGet(d1, e[2], 0) + 1)
                  IN  [edges |-> edges \cup {e}, degree |-> d2]

\* a call g.add_node((id, name))
CallAddNode ==
    /\ entry = "Graph" /\ pc = "calls"
    /\ \E id \in Ids, name \in Names :
          LET r == AddNode(g_nodes, g_degree, id, name)
          IN  g_nodes' = r.nodes /\ g_degree' = r.degree
    /\ UNCHANGED <<entry, pc, g_edges, target_id>>
    /\ UNCHANGED isomapVars

\* a call g.add_edge((a, b))
CallAddEdge ==
    /\ entry = "Graph" /\ pc = "calls"
    /\ \E a \in Ids, b \in Ids :
          LET r == AddEdge(g_edges, g_degree, a, b)
          IN  g_edges' = r.edges /\ g_degree' = r.degree
    /\ UNCHANGED <<entry, pc, g_nodes, target_id>>
    /\ UNCHANGED isomapVars

\* build_graph.py line 19: g = Graph(); target_id = int(pid); g.add_node(...)
ActorTarget ==
    /\ entry = "build_for_actor" /\ pc = "actor"
    /\ \E id \in Ids, name \in Names :
          LET r == AddNode(g_nodes, g_degree, id, name)
          IN  g_nodes' = r.nodes /\ g_degree' = r.degree /\ target_id' = id
    /\ pc' = "cast"
    /\ UNCHANGED <<entry, g_edges>>
    /\ UNCHANGED isomapVars

\* build_graph.py lines 23-25: one cast member of one movie
ActorCastMember ==
    /\ entry = "build_for_actor" /\ pc = "cast"
    /\ \E cid \in Ids, cname \in Names :
          LET r1 == AddNode(g_nodes, g_degree, cid, cname)
              r2 == AddEdge(g_edges, r1.degree, target_id, cid)
          IN  g_nodes' = r1.nodes /\ g_edges' = r2.edges /\ g_degree' = r2.degree
    /\ UNCHANGED <<entry, pc, target_id>>
    /\ UNCHANGED isomapVars

Next ==
    \/ IsomapDistances
    \/ BuildInit
    \/ RadiusRow
    \/ KnnRow
    \/ Symmetrize
    \/ ConnInit
    \/ ConnPop
    \/ ConnReport
    \/ FWInit
    \/ FWStep
    \/ FWReturn
    \/ IsomapMDS
    \/ CallAddNode
    \/ CallAddEdge
    \/ ActorTarget
    \/ ActorCastMember

Spec == Init /\ [][Next]_vars

\* =================================================================== claims
\* positions of the run at which a stage has returned
GraphBuilt == entry \in {"isomap", "build_neighborhood_graph"}
              /\ pc \in {"conn", "conn_loop", "fw", "fw_loop", "mds", "done"}
ConnDone   == entry \in {"isomap", "check_connectivity"}
              /\ pc \in {"fw", "fw_loop", "mds", "done"}
FWDone     == entry \in {"isomap", "floyd_warshall"} /\ pc \in {"mds", "done"}

\* least total weight over the simple paths from a to b that use only finite
\* entries of Gm and avoid the nodes already on the path; INF if there is none
RECURSIVE MinPathWeight(_, _, _, _, _)
MinPathWeight(Gm, m, a, b, used) ==
    IF a = b THEN 0
    ELSE LET nxt == {c \in Nodes(m) \ (used \cup {a}) : Gm[a][c] < INF}
             via == {Plus(Gm[a][c], MinPathWeight(Gm, m, c, b, used \cup {a})) : c \in nxt}
         IN  IF via = {} THEN INF
             ELSE CHOOSE w \in via : \A v \in via : w <= v

\* nodes joined to a by a chain of finite entries
RECURSIVE Closure(_, _, _)
Closure(Gm, m, S) ==
    LET T == S \cup {j \in Nodes(m) : \E a \in S : Gm[a][j] < INF}
    IN  IF T = S THEN S ELSE Closure(Gm, m, T)

Component(Gm, m, a) == Closure(Gm, m, {a})

\* C1: once floyd_warshall has returned, D_geo[a][b] is the least total weight
\* over the paths from a to b through finite entries of G, and it is infinite
\* exactly when b is not in a's connected component.
C1_GeodesicIsShortestPath ==
    FWDone =>
        \A a, b \in Nodes(n) :
            /\ D_geo[a][b] = MinPathWeight(G, n, a, b, {})
            /\ (D_geo[a][b] >= INF) <=> (b \notin Component(G, n, a))

\* a direct finite edge that a two-edge path undercuts
C1_Witness ==
    /\ FWDone
    /\ \E a, b \in Nodes(n) : G[a][b] < INF /\ D_geo[a][b] < G[a][b]

\* C5: check_connectivity returns true iff every node is reachable from node 0
\* through finite entries, and the count it reports is the size of node 0's
\* component (1 when no off-diagonal entry is finite).
C5_ConnectivityIsReachability ==
    ConnDone =>
        /\ connected = (Component(G, n, 0) = Nodes(n))
        /\ reached = Cardinality(Component(G, n, 0))
        /\ (\A a, b \in Nodes(n) : a /= b => G[a][b] >= INF) => reached = 1

\* a disconnected graph whose start component is two nodes of three
C5_Witness ==
    /\ ConnDone /\ n = 3 /\ ~connected /\ reached = 2

\* the triangle inequality on a matrix
Triangle(M, m) == \A a, b, c \in Nodes(m) : M[a][b] <= M[a][c] + M[c][b]

\* C7: on a fully connected graph (no infinite entry) whose weights satisfy the
\* triangle inequality, floyd_warshall returns the graph unchanged.
C7_FullyConnectedUnchanged ==
    (FWDone /\ ~HasInf(G, n) /\ Triangle(G, n)) => D_geo = G

\* three distinct nodes, all edges positive, one of them as long as the detour
C7_Witness ==
    /\ FWDone /\ n = 3 /\ ~HasInf(G, n) /\ Triangle(G, n)
    /\ \A a, b \in Nodes(n) : a /= b => G[a][b] > 0
    /\ \E a, b \in Nodes(n) : a /= b /\ G[a][b] > 1

\* the rows of build_neighborhood_graph are all processed (line 91 onwards)
RowsDone == entry \in {"isomap", "build_neighborhood_graph"}
            /\ \/ pc = "rows" /\ i = n
               \/ GraphBuilt

\* finite off-diagonal entries of row r
FiniteOthers(Gm, m, r) == {j \in Nodes(m) : j /= r /\ Gm[r][j] < INF}

\* C2: in k-NN mode with n_neighbors <= N-1, every row of the graph has at
\* least n_neighbors finite entries off the diagonal before symmetrization.
C2_KnnRowHasEnoughNeighbours ==
    (RowsDone /\ radius = NoRadius /\ n_neighbors <= n - 1) =>
        \A r \in Nodes(n) : Cardinality(FiniteOthers(Gdir, n, r)) >= n_neighbors

\* C3: the returned graph is symmetric with a zero diagonal, and off the
\* diagonal an entry is finite iff one endpoint selected the other, in which
\* case it is the distance D[a][b].
C3_GraphSymmetricUnionOfSelections ==
    GraphBuilt =>
        \A a, b \in Nodes(n) :
            /\ G[a][b] = G[b][a]
            /\ G[a][a] = 0
            /\ a /= b => /\ (G[a][b] < INF) <=> (b \in sel[a] \/ a \in sel[b])
                         /\ G[a][b] < INF => G[a][b] = D[a][b]

\* a k-NN edge selected from one side only
C3_Witness ==
    /\ GraphBuilt /\ radius = NoRadius
    /\ \E a, b \in Nodes(n) : a /= b /\ b \in sel[a] /\ a \notin sel[b] /\ G[b][a] = D[a][b]

\* C4: in radius mode the returned graph is D cut at the radius, whatever
\* n_neighbors is.
C4_RadiusGraph ==
    (GraphBuilt /\ radius /= NoRadius) =>
        \A a, b \in Nodes(n) :
            a /= b => G[a][b] = (IF D[a][b] <= radius THEN D[a][b] ELSE INF)

\* a node with more edges than n_neighbors, one of them exactly at the radius,
\* and a pair beyond the radius
C4_Witness ==
    /\ GraphBuilt /\ radius /= NoRadius
    /\ \E r \in Nodes(n) : Cardinality(FiniteOthers(G, n, r)) > n_neighbors
    /\ \E a, b \in Nodes(n) : a /= b /\ D[a][b] = radius /\ G[a][b] = radius
    /\ \E a, b \in Nodes(n) : D[a][b] > radius /\ G[a][b] >= INF

\* C6: in k-NN mode with n_neighbors >= N-1 every row selects all the other
\* samples, the returned graph has no infinite entry and equals D.
C6_AllNeighboursGivesD ==
    (GraphBuilt /\ radius = NoRadius /\ n_neighbors >= n - 1) =>
        /\ \A r \in Nodes(n) : Nodes(n) \ {r} \subseteq sel[r]
        /\ ~HasInf(G, n)
        /\ G = D

\* the stages of isomap(), in the order of lines 174-185
Stages == <<"dist", "graph", "conn", "geo", "mds">>

IsPrefix(s, t) == Len(s) <= Len(t) /\ SubSeq(t, 1, Len(s)) = s

Logged(stage) == \E p \in 1 .. Len(log) : log[p] = stage

\* C8: a run of isomap executes distance, graph, connectivity, geodesic, MDS
\* in that order; it stops only after all five, so a disconnected graph is
\* reported and the geodesic and MDS stages still run.
C8_StagesInOrder ==
    entry = "isomap" =>
        /\ IsPrefix(log, Stages)
        /\ pc = "done" => log = Stages
        /\ pc /= "done" => ENABLED Next
        /\ (Logged("geo") /\ ~connected) => reached < n

\* a finished run whose graph was reported disconnected
C8_Witness ==
    /\ entry = "isomap" /\ pc = "done" /\ log = Stages
    /\ ~connected /\ reached < n

\* C9: the matrix isomap hands to classical_mds has no infinite entry, and no
\* embedding is returned from infinite distances.
C9_NoInfiniteDistanceIntoMDS ==
    (entry = "isomap" /\ Logged("mds")) =>
        /\ ~HasInf(mdsIn, n)
        /\ result /= "nan_embedding"

\* C10: with n_components > N isomap runs no stage and returns no embedding.
C10_TooManyComponentsRejected ==
    (entry = "isomap" /\ n_components > n) =>
        /\ log = <<>>
        /\ result \notin {"embedding", "nan_embedding"}

\* ">=" on floats: false as soon as one side is NaN
FGeq(a, b) == a /= NaN /\ b /= NaN /\ a >= b

\* C11: the eigenvalue sequence isomap returns from classical_mds has length
\* N and is in descending order, vals[a] >= vals[b] for a < b, and the
\* eigenvector columns are reordered by the same permutation.
C11_EigenvaluesDescending ==
    (entry = "isomap" /\ pc = "done") =>
        /\ DOMAIN vals = Nodes(n)
        /\ \A a, b \in Nodes(n) : a < b => FGeq(vals[a], vals[b])
        /\ DOMAIN vecs = Nodes(n)
        /\ \A a \in Nodes(n) : vals[a] = eigvals[vecs[a]]

\* C12: in k-NN mode, of two candidates of a row at the same distance the one
\* with the higher index is selected only if the one with the lower index is
\* selected too (ties go to the lower index, as a stable sort gives them).
C12_TiesGoToLowerIndex ==
    (RowsDone /\ radius = NoRadius) =>
        \A r \in Nodes(n) : \A a, b \in Nodes(n) \ {r} :
            (a < b /\ D[r][a] = D[r][b] /\ b \in sel[r]) => a \in sel[r]

\* edges stored at node x
Incident(edges, x) == {e \in edges : e[1] = x \/ e[2] = x}

RECURSIVE SumDegrees(_, _)
SumDegrees(degree, keys) ==
    IF keys = {} THEN 0
    ELSE LET x == CHOOSE y \in keys : TRUE
         IN  degree[x] + SumDegrees(degree, keys \ {x})

\* Graph.total_edges (line 26)
total_edges == Cardinality(g_edges)

\* C13: after any sequence of add_node and add_edge calls every stored edge is
\* a pair (a, b) with a < b, every node's recorded degree is the number of
\* stored edges at it, the recorded degrees sum to twice total_edges(), and
\* add_edge of a stored pair, in either orientation, changes nothing.
C13_CollabGraphInvariant ==
    entry \in {"Graph", "build_for_actor"} =>
        /\ \A e \in g_edges : e[1] < e[2]
        /\ DOMAIN g_nodes \subseteq DOMAIN g_degree
        /\ \A x \in DOMAIN g_degree : g_degree[x] = Cardinality(Incident(g_edges, x))
        /\ SumDegrees(g_degree, DOMAIN g_degree) = 2 * total_edges
        /\ \A e \in g_edges :
              /\ AddEdge(g_edges, g_degree, e[1], e[2]) = [edges |-> g_edges, degree |-> g_degree]
              /\ AddEdge(g_edges, g_degree, e[2], e[1]) = [edges |-> g_edges, degree |-> g_degree]

\* a graph with every pair of three ids stored, one endpoint never added as a node
C13_Witness ==
    /\ entry = "Graph"
    /\ Cardinality(g_edges) >= 3
    /\ \E x \in DOMAIN g_degree : x \notin DOMAIN g_nodes /\ g_degree[x] = 2
    /\ \E x \in DOMAIN g_nodes : g_degree[x] = 2

====
